---- MODULE Spec2Model ----
(***************************************************************************)
(* Model of cmd/hello/main.go: the conversation coordinator (main, start,  *)
(* stop, askTheUser), the background capture goroutine and the response    *)
(* receive loop.  The main goroutine and the capture goroutines of the     *)
(* Turns are the processes; micStopCh is an unbuffered channel, so a send  *)
(* on it is a rendezvous with the capture goroutine's select.              *)
(***************************************************************************)
EXTENDS Integers, Sequences, FiniteSets, TLC

\* ---------------------------------------------------------------- bounds
\* start() recurses through stop() -> askTheUser() -> start(); the model
\* follows at most MaxTurns nested Turns (the user then stays at the prompt).
MaxTurns == 2
\* Audio payloads hold at most MaxAudioFrames whole playback frames.
MaxAudioFrames == 2

\* ------------------------------------------------------- program constants
\* bufOut := make([]int16, 8192)
FrameSamples == 8192
\* binary.Read fills bufOut: two bytes per int16 sample.
FrameBytes == FrameSamples * 2

Turns == 1..MaxTurns

\* --------------------------------------------------------- response events
\* []byte values: nil, present but empty, and two distinct non-empty tokens.
NilBytes == "nil"
EmptyBytes == "empty"
Tokens == {NilBytes, EmptyBytes, "T1", "T2"}
\* len(b) for the []byte values above (only len(b) > 0 is ever tested).
BytesLen(b) == IF b \in {NilBytes, EmptyBytes} THEN 0 ELSE 1

Transcripts == {"", "hello", "quit", "exit"}
MicModes == {"MICROPHONE_MODE_UNSPECIFIED", "CLOSE_MICROPHONE", "DIALOG_FOLLOW_ON"}
EventTypes == {"EVENT_TYPE_UNSPECIFIED", "END_OF_UTTERANCE"}

\* resp.GetAudioOut() == nil, or the byte length of AudioData.
NilAudio == -1
AudioLens == {k * FrameBytes : k \in 0..MaxAudioFrames} \cup {3200, FrameBytes + 3200}
AudioPayloads == {NilAudio} \cup AudioLens

\* A ConverseResponse as the getters of the receive loop see it.  transcript,
\* token and mic live inside the result: with a nil result the getters return
\* the zero values.
Events ==
    {e \in [err : BOOLEAN, result : BOOLEAN, transcript : Transcripts,
            token : Tokens, mic : MicModes, eventType : EventTypes,
            audio : AudioPayloads] :
        ~e.result => /\ e.transcript = ""
                     /\ e.token = NilBytes
                     /\ e.mic = "MICROPHONE_MODE_UNSPECIFIED"}

NoEvent ==
    [err |-> FALSE, result |-> FALSE, transcript |-> "", token |-> NilBytes,
     mic |-> "MICROPHONE_MODE_UNSPECIFIED", eventType |-> "EVENT_TYPE_UNSPECIFIED",
     audio |-> NilAudio]

\* Streams the server may play on a Turn: any events in any order ("free"),
\* or one of the fixed streams of the scenarios, followed by end-of-stream.
HelloEv == [NoEvent EXCEPT !.result = TRUE, !.transcript = "hello"]
Audio3200Ev == [NoEvent EXCEPT !.audio = 3200]
EouEv == [NoEvent EXCEPT !.eventType = "END_OF_UTTERANCE"]
ErrorEv == [NoEvent EXCEPT !.err = TRUE]
Free == "free"
Streams == {Free, "hello", "error", "skip"}
StreamEvents(s) ==
    CASE s = "hello" -> <<HelloEv, Audio3200Ev, EouEv>>
      [] s = "error" -> <<ErrorEv>>
      [] s = "skip" -> <<Audio3200Ev, EouEv>>
      [] OTHER -> <<>>

VARIABLES
    proc,              \* "running", or how the process ended
    pc,                \* position of the main goroutine
    turn,              \* number of start() calls so far (the innermost Turn)
    frame,             \* the start() frame the main goroutine executes
    conn,              \* conn[t]: "none", "open", "closed" (conn.Close ran)
    canceler,          \* the Turn whose CancelFunc the global holds (0: nil)
    cancelled,         \* cancelled[t]: the Turn's CancelFunc has been called
    conversationState, \* the process-wide continuation token
    config,            \* token attached to the innermost Turn's config
    configSent,        \* the innermost Turn's config Send returned without error
    cap,               \* cap[t]: position of the Turn's capture goroutine
    stream,            \* the stream the server plays on the innermost Turn
    nrecv,             \* events of a fixed stream received so far
    ev,                \* the event the receive loop is processing
    stopQuit,          \* the argument of the stop() call in progress
    sigPos,            \* read offset of bytes.NewReader(audioOut.AudioData)
    played,            \* payload offsets written to streamOut for ev
    writeFailed,       \* streamOut.Write() returned an error for ev
    endCause,          \* the branch that ended the innermost Turn
    sentOnClosed,      \* sentOnClosed[t]: audio was sent after conn.Close
    sendErr            \* sendErr[t]: the capture goroutine's err holds a Send error

vars == <<proc, pc, turn, frame, conn, canceler, cancelled, conversationState,
          config, configSent, cap, stream, nrecv, ev, stopQuit, sigPos, played,
          writeFailed, endCause, sentOnClosed, sendErr>>

mainVars == <<proc, pc, turn, frame, conn, canceler, cancelled, conversationState,
              config, configSent, stream, nrecv, ev, stopQuit, sigPos, played,
              writeFailed, endCause>>

Running == proc = "running"

\* ------------------------------------------------------------------- Init
\* main(): portaudio.Initialize(); start()
Init ==
    /\ proc = "running"
    /\ pc = "dial"
    /\ turn = 1
    /\ frame = 1
    /\ conn = [t \in Turns |-> "none"]
    /\ canceler = 0
    /\ cancelled = [t \in Turns |-> FALSE]
    /\ conversationState = NilBytes
    /\ config = "unbuilt"
    /\ configSent = FALSE
    /\ cap = [t \in Turns |-> "none"]
    /\ stream = Free
    /\ nrecv = 0
    /\ ev = NoEvent
    /\ stopQuit = FALSE
    /\ sigPos = 0
    /\ played = <<>>
    /\ writeFailed = FALSE
    /\ endCause = "none"
    /\ sentOnClosed = [t \in Turns |-> FALSE]
    /\ sendErr = [t \in Turns |-> FALSE]

\* ---------------------------------------------------------------- helpers
\* if len(conversationState) > 0 { config.Config.ConverseState = ... }
ConfigToken(state) == IF BytesLen(state) > 0 THEN state ELSE "absent"

\* if result.ConversationState != nil { conversationState = ... }
StoreToken(state, tok) == IF tok # NilBytes THEN tok ELSE state

\* Faulty variant: the error field is looked at only when the result is nil.
HasError_OnlyWithoutResult(e) == e.err /\ ~e.result

\* if err := resp.GetError(); err != nil
HasError(e) == e.err

\* transcript == "quit" || transcript == "exit"
IsQuit(transcript) == transcript = "quit" \/ transcript = "exit"

\* resp.GetEventType() == embedded.ConverseResponse_END_OF_UTTERANCE
IsEndOfUtterance(eventType) == eventType = "END_OF_UTTERANCE"

\* Faulty variants of the switch: the DIALOG_FOLLOW_ON case closes the
\* microphone; the two cases are swapped; the default case goes on with the loop.
MicModeNext_FollowOnCloses(mic) ==
    CASE mic = "CLOSE_MICROPHONE" -> "close"
      [] mic = "DIALOG_FOLLOW_ON" -> "close"
      [] OTHER -> "unknown"
MicModeNext_Swapped(mic) ==
    CASE mic = "CLOSE_MICROPHONE" -> "continue"
      [] mic = "DIALOG_FOLLOW_ON" -> "close"
      [] OTHER -> "unknown"
MicModeNext_DefaultContinues(mic) ==
    CASE mic = "CLOSE_MICROPHONE" -> "close"
      [] mic = "DIALOG_FOLLOW_ON" -> "continue"
      [] OTHER -> "continue"

\* switch micMode { case CLOSE_MICROPHONE / case DIALOG_FOLLOW_ON / default }
MicModeNext(mic) ==
    CASE mic = "CLOSE_MICROPHONE" -> "close"
      [] mic = "DIALOG_FOLLOW_ON" -> "continue"
      [] OTHER -> "unknown"

\* Faulty variant: the last whole frame of a payload is not read.
CanReadFrame_DropsLast(len, pos) == len - pos > FrameBytes

\* binary.Read(signal, binary.LittleEndian, bufOut) returns nil: io.ReadFull
\* finds len(bufOut)*2 more bytes at the reader's offset.
CanReadFrame(len, pos) == len - pos >= FrameBytes

\* The main goroutine is blocked in "micStopCh <- true" on Turn t's channel.
MainSendsStop(t) == frame = t /\ pc \in {"stopSend", "eouSend"}

\* ------------------------------------------------------- main goroutine
\* start(): context.WithDeadline assigns the global canceler; newConn; on
\* failure start returns before any defer is registered.
Dial ==
    /\ Running /\ pc = "dial"
    /\ canceler' = frame
    /\ \E ok \in BOOLEAN :
         IF ok
         THEN /\ conn' = [conn EXCEPT ![frame] = "open"]
              /\ pc' = "converse"
              /\ UNCHANGED endCause
         ELSE /\ pc' = "return"
              /\ endCause' = "dialFail"
              /\ UNCHANGED conn
    /\ UNCHANGED <<proc, turn, frame, cancelled, conversationState, config,
                   configSent, cap, stream, nrecv, ev, stopQuit, sigPos, played,
                   writeFailed, sentOnClosed, sendErr>>

\* The config is built from conversationState, then assistant.Converse(ctx);
\* on failure stop(false) is called (os.Exit(1) follows its return).  When the
\* stream opens, the server settles what it will play on it.
Converse ==
    /\ Running /\ pc = "converse"
    /\ config' = ConfigToken(conversationState)
    /\ \E ok \in BOOLEAN :
         IF ok
         THEN /\ pc' = "sendConfig"
              /\ \E s \in Streams : stream' = s
              /\ UNCHANGED <<stopQuit, endCause>>
         ELSE /\ pc' = "stopSend"
              /\ stopQuit' = FALSE
              /\ endCause' = "setupFail"
              /\ UNCHANGED stream
    /\ UNCHANGED <<proc, turn, frame, conn, canceler, cancelled, conversationState,
                   configSent, cap, nrecv, ev, sigPos, played, writeFailed,
                   sentOnClosed, sendErr>>

\* Faulty variant: a failed config Send is only logged and start() goes on.
AfterConfigSend_FailureIgnored(ok) == "spawn"

\* if err != nil { ...; stop(false); os.Exit(1) }: after a failed config Send
\* start() enters stop(false); otherwise it goes on to start the capture
\* goroutine.
AfterConfigSend(ok) == IF ok THEN "spawn" ELSE "stopSend"

\* conversation.Send(config); on failure stop(false) (os.Exit(1) follows).
SendConfig ==
    /\ Running /\ pc = "sendConfig"
    /\ \E ok \in BOOLEAN :
         IF ok
         THEN /\ configSent' = TRUE
              /\ pc' = AfterConfigSend(ok)
              /\ UNCHANGED <<stopQuit, endCause>>
         ELSE /\ pc' = AfterConfigSend(ok)
              /\ stopQuit' = FALSE
              /\ endCause' = "setupFail"
              /\ UNCHANGED configSent
    /\ UNCHANGED <<proc, turn, frame, conn, canceler, cancelled, conversationState,
                   config, cap, stream, nrecv, ev, sigPos, played, writeFailed,
                   sentOnClosed, sendErr>>

\* go func() { ... }(): the capture goroutine of the Turn starts.
Spawn ==
    /\ Running /\ pc = "spawn"
    /\ cap' = [cap EXCEPT ![frame] = "open"]
    /\ pc' = "openOut"
    /\ UNCHANGED <<proc, turn, frame, conn, canceler, cancelled, conversationState,
                   config, configSent, stream, nrecv, ev, stopQuit, sigPos, played,
                   writeFailed, endCause, sentOnClosed, sendErr>>

\* portaudio.OpenDefaultStream for playback and streamOut.Start(): a failure
\* panics, which ends the process.
OpenOut ==
    /\ Running /\ pc = "openOut"
    /\ \E ok \in BOOLEAN :
         IF ok
         THEN pc' = "recv" /\ UNCHANGED proc
         ELSE proc' = "panic" /\ UNCHANGED pc
    /\ UNCHANGED <<turn, frame, conn, canceler, cancelled, conversationState,
                   config, configSent, cap, stream, nrecv, ev, stopQuit, sigPos,
                   played, writeFailed, endCause, sentOnClosed, sendErr>>

\* conversation.Recv() returns io.EOF: break, and start() returns.
RecvEOF ==
    /\ Running /\ pc = "recv"
    /\ stream = Free \/ nrecv = Len(StreamEvents(stream))
    /\ pc' = "return"
    /\ endCause' = "eof"
    /\ UNCHANGED <<proc, turn, frame, conn, canceler, cancelled, conversationState,
                   config, configSent, cap, stream, nrecv, ev, stopQuit, sigPos,
                   played, writeFailed, sentOnClosed, sendErr>>

\* conversation.Recv() returns another error (a broken stream, the deadline of
\* the Turn's context): log.Fatalf, which is os.Exit(1).
RecvFail ==
    /\ Running /\ pc = "recv"
    /\ stream = Free
    /\ proc' = "exit1"
    /\ endCause' = "recvFail"
    /\ UNCHANGED <<pc, turn, frame, conn, canceler, cancelled, conversationState,
                   config, configSent, cap, stream, nrecv, ev, stopQuit, sigPos,
                   played, writeFailed, sentOnClosed, sendErr>>

\* conversation.Recv() returns a response: any event on a free stream, the
\* next event of a fixed stream.
RecvEvent ==
    /\ Running /\ pc = "recv"
    /\ IF stream = Free
       THEN /\ \E e \in Events : ev' = e
            /\ UNCHANGED nrecv
       ELSE /\ nrecv < Len(StreamEvents(stream))
            /\ ev' = StreamEvents(stream)[nrecv + 1]
            /\ nrecv' = nrecv + 1
    /\ pc' = "handle"
    /\ UNCHANGED <<proc, turn, frame, conn, canceler, cancelled, conversationState,
                   config, configSent, cap, stream, stopQuit, sigPos, played,
                   writeFailed, endCause, sentOnClosed, sendErr>>

\* Faulty variant: a response without result is skipped only when it carries
\* no audio either.
IsNilResult_OnlyWithoutAudio(e) == ~e.result /\ e.audio = NilAudio

\* result := resp.GetResult(); if result == nil
IsNilResult(e) == ~e.result

\* The body of the receive loop from resp.GetError() down to the
\* END_OF_UTTERANCE test, for the response in ev.
HandleEvent ==
    /\ Running /\ pc = "handle"
    /\ IF HasError(ev)
       THEN \* log.Fatalf("Received error from the assistant")
            /\ proc' = "exit1"
            /\ endCause' = "errorEvent"
            /\ UNCHANGED <<pc, ev, conversationState, stopQuit>>
       ELSE IF IsNilResult(ev)
       THEN \* "nil result": continue
            /\ pc' = "recv"
            /\ ev' = NoEvent
            /\ UNCHANGED <<proc, conversationState, stopQuit, endCause>>
       ELSE IF IsQuit(ev.transcript)
       THEN \* stop(true)
            /\ pc' = "stopSend"
            /\ stopQuit' = TRUE
            /\ endCause' = "quit"
            /\ UNCHANGED <<proc, ev, conversationState>>
       ELSE /\ conversationState' = StoreToken(conversationState, ev.token)
            /\ IF IsEndOfUtterance(ev.eventType)
               THEN \* micStopCh <- true; return
                    /\ pc' = "eouSend"
                    /\ endCause' = "eou"
               ELSE /\ pc' = "audioOut"
                    /\ UNCHANGED endCause
            /\ UNCHANGED <<proc, ev, stopQuit>>
    /\ UNCHANGED <<turn, frame, conn, canceler, cancelled, config, configSent, cap,
                   stream, nrecv, sigPos, played, writeFailed, sentOnClosed, sendErr>>

\* audioOut == nil: the playback loop is skipped.
AudioOutSkip ==
    /\ Running /\ pc = "audioOut"
    /\ ev.audio = NilAudio
    /\ pc' = "micMode"
    /\ UNCHANGED <<proc, turn, frame, conn, canceler, cancelled, conversationState,
                   config, configSent, cap, stream, nrecv, ev, stopQuit, sigPos,
                   played, writeFailed, endCause, sentOnClosed, sendErr>>

\* One pass of the playback loop: binary.Read of a whole frame (an exhausted or
\* short payload is an error: break), then streamOut.Write() (an error: break).
AudioOutFrame ==
    /\ Running /\ pc = "audioOut"
    /\ ev.audio # NilAudio
    /\ IF ~CanReadFrame(ev.audio, sigPos)
       THEN /\ sigPos' = ev.audio
            /\ pc' = "micMode"
            /\ UNCHANGED <<played, writeFailed>>
       ELSE /\ sigPos' = sigPos + FrameBytes
            /\ \E ok \in BOOLEAN :
                 IF ok
                 THEN /\ played' = Append(played, sigPos)
                      /\ UNCHANGED <<pc, writeFailed>>
                 ELSE /\ writeFailed' = TRUE
                      /\ pc' = "micMode"
                      /\ UNCHANGED played
    /\ UNCHANGED <<proc, turn, frame, conn, canceler, cancelled, conversationState,
                   config, configSent, cap, stream, nrecv, ev, stopQuit, endCause,
                   sentOnClosed, sendErr>>

\* The switch on result.GetMicrophoneMode(); DIALOG_FOLLOW_ON falls out of the
\* switch into the next pass of the receive loop.
MicMode ==
    /\ Running /\ pc = "micMode"
    /\ LET next == MicModeNext(ev.mic) IN
         IF next = "continue"
         THEN /\ pc' = "recv"
              /\ ev' = NoEvent
              /\ sigPos' = 0
              /\ played' = <<>>
              /\ writeFailed' = FALSE
              /\ UNCHANGED <<stopQuit, endCause>>
         ELSE \* stop(false)
              /\ pc' = "stopSend"
              /\ stopQuit' = FALSE
              /\ endCause' = next
              /\ UNCHANGED <<ev, sigPos, played, writeFailed>>
    /\ UNCHANGED <<proc, turn, frame, conn, canceler, cancelled, conversationState,
                   config, configSent, cap, stream, nrecv, sentOnClosed, sendErr>>

\* Faulty variant: the receive case lacks its return, and the capture goroutine
\* goes on with the loop.
OnStopSignal_NoReturn == "read"

\* case <-micStopCh: the capture goroutine leaves its loop: it stops the
\* device and returns.
OnStopSignal == "stopping"

\* Faulty variant: a send on micStopCh also completes while the capture
\* goroutine is blocked in its own send on the channel.
ReceivesStop_AlsoWhenBlocked(c) == c \in {"select", "stopBlocked"}

\* micStopCh := make(chan bool) is unbuffered and its only receive is the case
\* <-micStopCh of the capture goroutine's select: a send completes only with
\* the capture goroutine at that select.
ReceivesStop(c) == c = "select"

\* stop(): micStopCh <- true completes when the Turn's capture goroutine is at
\* its select and takes the receive case.
StopSend ==
    /\ Running /\ pc = "stopSend"
    /\ ReceivesStop(cap[frame])
    /\ cap' = [cap EXCEPT ![frame] = OnStopSignal]
    /\ pc' = "stopCancel"
    /\ ev' = NoEvent
    /\ UNCHANGED <<proc, turn, frame, conn, canceler, cancelled, conversationState,
                   config, configSent, stream, nrecv, stopQuit, sigPos, played,
                   writeFailed, endCause, sentOnClosed, sendErr>>

\* stop(): ctx.Done(); canceler(); if quit { os.Exit(0) }; askTheUser() prints
\* the prompt and blocks in ReadLine.
StopCancel ==
    /\ Running /\ pc = "stopCancel"
    /\ cancelled' = [cancelled EXCEPT ![canceler] = TRUE]
    /\ IF stopQuit
       THEN proc' = "exit0" /\ UNCHANGED pc
       ELSE pc' = "prompt" /\ UNCHANGED proc
    /\ UNCHANGED <<turn, frame, conn, canceler, conversationState, config,
                   configSent, cap, stream, nrecv, ev, stopQuit, sigPos, played,
                   writeFailed, endCause, sentOnClosed, sendErr>>

\* askTheUser(): ReadLine returns and start() is called again, nested in the
\* frames of the Turns before it.
AskTheUser ==
    /\ Running /\ pc = "prompt"
    /\ turn < MaxTurns
    /\ turn' = turn + 1
    /\ frame' = turn + 1
    /\ pc' = "dial"
    /\ stream' = Free
    /\ nrecv' = 0
    /\ sigPos' = 0
    /\ played' = <<>>
    /\ writeFailed' = FALSE
    /\ config' = "unbuilt"
    /\ configSent' = FALSE
    /\ endCause' = "none"
    /\ UNCHANGED <<proc, conn, canceler, cancelled, conversationState, cap, ev,
                   stopQuit, sentOnClosed, sendErr>>

\* The END_OF_UTTERANCE branch: micStopCh <- true (the same rendezvous), return.
EouSend ==
    /\ Running /\ pc = "eouSend"
    /\ ReceivesStop(cap[frame])
    /\ cap' = [cap EXCEPT ![frame] = OnStopSignal]
    /\ pc' = "return"
    /\ ev' = NoEvent
    /\ UNCHANGED <<proc, turn, frame, conn, canceler, cancelled, conversationState,
                   config, configSent, stream, nrecv, stopQuit, sigPos, played,
                   writeFailed, endCause, sentOnClosed, sendErr>>

\* start() returns: its deferred conn.Close() runs.  A nested start() returns
\* into askTheUser and stop of the Turn before it, whose start() returns in
\* turn; the outermost start() returns into main, which ends the process.
Return ==
    /\ Running /\ pc = "return"
    /\ conn' = [conn EXCEPT ![frame] = IF conn[frame] = "open" THEN "closed" ELSE @]
    /\ IF frame > 1
       THEN frame' = frame - 1 /\ UNCHANGED proc
       ELSE proc' = "mainReturn" /\ UNCHANGED frame
    /\ UNCHANGED <<pc, turn, canceler, cancelled, conversationState, config,
                   configSent, cap, stream, nrecv, ev, stopQuit, sigPos, played,
                   writeFailed, endCause, sentOnClosed, sendErr>>

\* ---------------------------------------------------- capture goroutine
\* portaudio.OpenDefaultStream for capture; on failure stop(false), whose
\* "micStopCh <- true" has no receiver but this goroutine itself.
CapOpen(t) ==
    /\ Running /\ cap[t] = "open"
    /\ \E ok \in BOOLEAN :
         cap' = [cap EXCEPT ![t] = IF ok THEN "start" ELSE "stopBlocked"]
    /\ UNCHANGED <<mainVars, sentOnClosed, sendErr>>

\* micstream.Start(); on failure stop(false).
CapStart(t) ==
    /\ Running /\ cap[t] = "start"
    /\ \E ok \in BOOLEAN :
         cap' = [cap EXCEPT ![t] = IF ok THEN "read" ELSE "stopBlocked"]
    /\ UNCHANGED <<mainVars, sentOnClosed, sendErr>>

\* err = micstream.Read() (the result replaces what err held); on failure
\* stop(false).
CapRead(t) ==
    /\ Running /\ cap[t] = "read"
    /\ \E ok \in BOOLEAN :
         cap' = [cap EXCEPT ![t] = IF ok THEN "send" ELSE "stopBlocked"]
    /\ sendErr' = [sendErr EXCEPT ![t] = FALSE]
    /\ UNCHANGED <<mainVars, sentOnClosed>>

\* Faulty variant: a failed Send is treated like a device failure (stop(false)).
AfterSend_FailureStops(ok) == IF ok THEN "select" ELSE "stopBlocked"

\* if err = conversation.Send(...); err != nil { log.Printf(...) }: whatever the
\* result, the goroutine goes on to its select.
AfterSend(ok) == "select"

\* err = conversation.Send(AudioIn): an error is logged and nothing else.
CapSend(t) ==
    /\ Running /\ cap[t] = "send"
    /\ \E ok \in BOOLEAN :
         /\ cap' = [cap EXCEPT ![t] = AfterSend(ok)]
         /\ sendErr' = [sendErr EXCEPT ![t] = ~ok]
    /\ sentOnClosed' = [sentOnClosed EXCEPT ![t] = @ \/ conn[t] = "closed"]
    /\ UNCHANGED mainVars

\* select { case <-micStopCh: ... default: }: the default case is taken when
\* no sender waits on the channel.
CapSelectDefault(t) ==
    /\ Running /\ cap[t] = "select"
    /\ ~MainSendsStop(t)
    /\ cap' = [cap EXCEPT ![t] = "read"]
    /\ UNCHANGED <<mainVars, sentOnClosed, sendErr>>

\* After the receive case: err = micstream.Stop(), return (deferred
\* micstream.Close).
CapStop(t) ==
    /\ Running /\ cap[t] = "stopping"
    /\ cap' = [cap EXCEPT ![t] = "done"]
    /\ sendErr' = [sendErr EXCEPT ![t] = FALSE]
    /\ UNCHANGED <<mainVars, sentOnClosed>>

\* ------------------------------------------------------------ specification
MainStep ==
    \/ Dial \/ Converse \/ SendConfig \/ Spawn \/ OpenOut
    \/ RecvEOF \/ RecvFail \/ RecvEvent \/ HandleEvent
    \/ AudioOutSkip \/ AudioOutFrame \/ MicMode
    \/ StopSend \/ StopCancel \/ EouSend \/ Return

CaptureStep(t) ==
    \/ CapOpen(t) \/ CapStart(t) \/ CapRead(t) \/ CapSend(t)
    \/ CapSelectDefault(t) \/ CapStop(t)

Next ==
    \/ MainStep
    \/ AskTheUser
    \/ \E t \in Turns : CaptureStep(t)

Spec == Init /\ [][Next]_vars

\* The Go scheduler runs every goroutine that can take a step; blocking device
\* and session calls return.  The user need not answer the prompt.
FairSpec ==
    /\ Spec
    /\ WF_vars(MainStep)
    /\ \A t \in Turns : WF_vars(CaptureStep(t))

\* ================================================================ properties
InLoop(p) == p \in {"recv", "handle", "audioOut", "micMode"}

\* The step ends the receive loop: the main goroutine leaves the loop body or
\* the process ends.
LoopEnds == InLoop(pc) /\ Running /\ (~InLoop(pc') \/ proc' # "running")

Quit(e) == e.transcript \in {"quit", "exit"}
UnknownMode(e) == e.result /\ e.mic \notin {"CLOSE_MICROPHONE", "DIALOG_FOLLOW_ON"}

\* The offsets of the whole frames of a payload of len bytes, in payload order.
FrameOffsets(len) == [i \in 1..(len \div FrameBytes) |-> (i - 1) * FrameBytes]

NonQuitEnds == {"eof", "eou", "close", "unknown"}
LoopEndCauses == NonQuitEnds \cup {"quit"}

\* ------------------------------------------------------------------- C1
\* C1 as stated: while the events carry no error field and no CLOSE mode, the
\* loop ends only on an END_OF_UTTERANCE event type or an unknown microphone
\* mode (end-of-stream is not an event).
C1_Original ==
    [][(LoopEnds /\ pc # "recv" /\ ~ev.err /\ ev.mic # "CLOSE_MICROPHONE")
          => (ev.eventType = "END_OF_UTTERANCE" \/ UnknownMode(ev))]_vars

\* C1, amended: while the events carry no error field, no CLOSE mode and no
\* quit/exit transcript and Recv does not fail, the loop ends only on
\* end-of-stream, on an END_OF_UTTERANCE event type or on an unknown
\* microphone mode; every other event leaves the main goroutine in the loop
\* and the process running.
C1_LoopContinues ==
    [][LoopEnds
          => IF pc = "recv"
             THEN endCause' \in {"eof", "recvFail"}
             ELSE \/ ev.err \/ ev.mic = "CLOSE_MICROPHONE" \/ Quit(ev)
                  \/ ev.eventType = "END_OF_UTTERANCE" \/ UnknownMode(ev)]_vars

\* An event with a transcript, audio and DIALOG_FOLLOW_ON has been played and
\* the loop is still running.
C1_Witness ==
    /\ Running /\ pc = "micMode"
    /\ ev.mic = "DIALOG_FOLLOW_ON" /\ ev.transcript = "hello"
    /\ Len(played) = 1

\* ------------------------------------------------------------------- C2
\* C2 as stated: once a quit/exit transcript has been received (the main
\* goroutine is in stop(true)), the process terminates with exit code 0.
C2_QuitExits == (Running /\ pc = "stopSend" /\ stopQuit) ~> (proc = "exit0")

\* ------------------------------------------------------------------- C3
\* C3: while an event with DIALOG_FOLLOW_ON, no error, no quit/exit transcript
\* and no END_OF_UTTERANCE is processed, the main goroutine stays in the loop
\* body, the Turn's capture goroutine is not signalled, the Turn's context is
\* not cancelled, and the switch on the mode leads back to Recv.
FollowOnEvent(e) ==
    /\ e.result /\ e.mic = "DIALOG_FOLLOW_ON"
    /\ ~e.err /\ ~Quit(e) /\ e.eventType # "END_OF_UTTERANCE"

C3_FollowOnContinues ==
    [][(Running /\ pc \in {"handle", "audioOut", "micMode"} /\ FollowOnEvent(ev))
          => /\ proc' = "running"
             /\ InLoop(pc')
             /\ (pc = "micMode" /\ pc' # pc => pc' = "recv")
             /\ cap'[frame] \notin {"stopping", "done"}
             /\ ~cancelled'[frame]
             /\ endCause' = "none"]_vars

\* A DIALOG_FOLLOW_ON event with two frames of audio is at the switch.
C3_Witness ==
    /\ Running /\ pc = "micMode" /\ FollowOnEvent(ev)
    /\ ev.audio = 2 * FrameBytes /\ Len(played) = 2
    /\ cap[frame] = "select"

\* ------------------------------------------------------------------- C4
\* C4 as stated: for every received event (without an error field) whose
\* payload is a multiple of the frame size, when no write fails, the writes
\* issued by the time the loop is done with the event's audio are the frames
\* of the payload in order.
C4_Original ==
    [][(Running /\ pc \in {"handle", "audioOut"} /\ pc' \notin {"handle", "audioOut"}
          /\ ~ev.err /\ ev.audio # NilAudio /\ ev.audio % FrameBytes = 0
          /\ ~writeFailed')
          => played' = FrameOffsets(ev.audio)]_vars

\* C4, amended: for every received event with no error field, a non-nil
\* result, no quit/exit transcript and no END_OF_UTTERANCE event type, whose
\* payload is a multiple of the frame size, when no write fails, the loop
\* reaches the switch on the microphone mode having written exactly the
\* frames of the payload, in payload order.
C4_PlaysWholeFrames ==
    [][(Running /\ pc \in {"handle", "audioOut"} /\ pc' \notin {"handle", "audioOut"}
          /\ ~ev.err /\ ev.result /\ ~Quit(ev) /\ ev.eventType # "END_OF_UTTERANCE"
          /\ ev.audio # NilAudio /\ ev.audio % FrameBytes = 0
          /\ ~writeFailed')
          => /\ pc' = "micMode"
             /\ proc' = "running"
             /\ played' = FrameOffsets(ev.audio)]_vars

\* Both frames of a two-frame payload have been written, in order.
C4_Witness ==
    /\ pc = "micMode" /\ ev.audio = 2 * FrameBytes /\ ~writeFailed
    /\ played = <<0, FrameBytes>>

\* ------------------------------------------------------------------- C5
\* C5 as stated: a Turn's config carries no token when the process-wide token
\* is empty and that token otherwise; the token changes only in the receive
\* loop, to the token of the response; once non-empty it stays non-empty.
C5_Original ==
    [][/\ (config = "unbuilt" /\ config' # "unbuilt")
            => config' = IF BytesLen(conversationState) = 0
                         THEN "absent" ELSE conversationState
       /\ (conversationState' # conversationState)
            => (pc = "handle" /\ conversationState' = ev.token)
       /\ (BytesLen(conversationState) > 0)
            => (BytesLen(conversationState') > 0)]_vars

\* ------------------------------------------------------------------- C6
\* C6 as stated: on the stream [{transcript "hello"}, {audio 3200 bytes},
\* {END_OF_UTTERANCE}] the Turn ends only after the third event, with no
\* playback write.
C6_Original ==
    (stream = "hello" /\ endCause \in LoopEndCauses)
       => (nrecv = 3 /\ played = <<>>)

\* C6, amended: on that stream the receive loop processes the first event
\* only: its result carries no microphone mode, so the switch takes the
\* default branch and calls stop(false).  No playback write is issued, the
\* second and third events are never received, and the Turn ends after the
\* first event, its capture goroutine stopped by the time stop() goes on.
C6_HelloStream ==
    stream = "hello"
       => /\ nrecv <= 1
          /\ played = <<>>
          /\ endCause \in {"none", "setupFail", "unknown"}
          /\ endCause = "unknown" => nrecv = 1
          /\ pc \in {"stopCancel", "prompt"} => cap[turn] \in {"stopping", "done"}

\* The Turn of that stream has ended after one event and the user is prompted.
C6_Witness ==
    /\ stream = "hello" /\ pc = "prompt" /\ nrecv = 1
    /\ endCause = "unknown" /\ cap[turn] = "done"

\* ------------------------------------------------------------------- C7
\* C7: with an error event in hand the main goroutine does nothing but end
\* the process; the step that ends the process on a receive error (exit code
\* 1) writes nothing to playback, leaves the token alone and starts nothing;
\* after it nothing changes; the stream [{error}] issues no playback write.
C7_ReceiveErrorIsFatal ==
    [][/\ (Running /\ pc = "handle" /\ ev.err)
            => /\ proc' \in {"running", "exit1"}
               /\ pc' = pc /\ ev' = ev
               /\ played = <<>> /\ played' = <<>>
               /\ conversationState' = conversationState
               /\ turn' = turn /\ nrecv' = nrecv
       /\ (Running /\ proc' = "exit1")
            => /\ pc \in {"recv", "handle"} /\ pc' = pc
               /\ played' = played
               /\ conversationState' = conversationState
               /\ turn' = turn /\ nrecv' = nrecv
       /\ proc = "exit1" => vars' = vars
       /\ stream = "error" => (played = <<>> /\ nrecv <= 1 /\ pc # "prompt")]_vars

\* An error event that also carries a result, a token and audio has ended the
\* process: nothing was played, nothing stored.
C7_Witness ==
    /\ proc = "exit1" /\ endCause = "errorEvent"
    /\ ev.err /\ ev.result /\ ev.token = "T1" /\ ev.audio = FrameBytes
    /\ played = <<>> /\ conversationState = NilBytes

\* ------------------------------------------------------------------- C8
\* C8 as stated: when the connection of a Turn that ended by end-of-stream,
\* END_OF_UTTERANCE, CLOSE, an unknown mode or quit/exit is closed, its capture
\* goroutine has received the stop signal, and it never sends on the closed
\* session.  (A Turn with a Turn nested in it ended by CLOSE or unknown mode.)
C8_Original ==
    \A t \in Turns :
        (conn[t] = "closed" /\ (t < turn \/ endCause \in LoopEndCauses))
           => (cap[t] \in {"stopping", "done"} /\ ~sentOnClosed[t])

\* ------------------------------------------------------------------- C9
\* C9 as stated: once a new Turn has opened its connection, the capture
\* goroutine of every earlier Turn has terminated and the connection of every
\* earlier Turn is closed.
C9_Original ==
    \A t \in Turns :
        (t < turn /\ conn[turn] # "none")
           => (cap[t] \in {"none", "done"} /\ conn[t] = "closed")

\* ------------------------------------------------------------------ C10
\* C10 as stated: when the innermost Turn has ended by end-of-stream,
\* END_OF_UTTERANCE, CLOSE or an unknown mode, the process is running and the
\* main goroutine is handing the stop signal over, in stop() on its way to
\* the prompt, or at the prompt.
C10_Original ==
    endCause \in NonQuitEnds
       => (Running /\ pc \in {"stopSend", "eouSend", "stopCancel", "prompt"})

\* ---------------------------------------------------------------------- C11
\* C11: when opening the conversation stream (assistant.Converse) or sending
\* the config message fails, the process exits with code 1.
C11_SetupFailureExits ==
    (Running /\ endCause = "setupFail") ~> (proc = "exit1")

\* ---------------------------------------------------------------------- C12
\* C12: on every terminal condition (end of stream, END_OF_UTTERANCE,
\* CLOSE_MICROPHONE, unknown mode, quit) the main goroutine has stopped the
\* capture goroutine, called the cancel function and closed the connection of
\* the Turn by the time it exits or prompts the user again.
C12_StopCancelCloseBeforeLeaving ==
    (endCause \in LoopEndCauses /\ (pc = "prompt" \/ ~Running))
       => /\ cap[turn] \in {"stopping", "done"}
          /\ cancelled[turn]
          /\ conn[turn] = "closed"

\* ---------------------------------------------------------------------- C13
\* C13: after a failure of the capture device (open, start or read) the capture
\* goroutine does not stay blocked forever: it terminates, or the process ends.
C13_CaptureFailureTerminates ==
    \A t \in Turns : (cap[t] = "stopBlocked") ~> (cap[t] = "done" \/ ~Running)

\* ---------------------------------------------------------------------- C14
\* C14: a failed audio Send of the capture goroutine is soft.  The failing
\* Send changes nothing of the main goroutine, the contexts or the process and
\* takes the capture goroutine to its select; from there it takes the stop
\* signal if the main goroutine is sending one and otherwise goes on to read
\* the next frame, which it then sends (or the device fails).
C14_SendFailureIsSoft ==
    [][\A t \in Turns :
          /\ (cap[t] = "send" /\ sendErr'[t])
                => (cap'[t] = "select" /\ UNCHANGED mainVars)
          /\ (cap[t] = "select" /\ sendErr[t] /\ cap'[t] # cap[t])
                => cap'[t] = IF MainSendsStop(t) THEN "stopping" ELSE "read"
          /\ (cap[t] = "read" /\ sendErr[t] /\ cap'[t] # cap[t])
                => cap'[t] \in {"send", "stopBlocked"}]_vars

\* A Send failed, no stop signal was pending, and the capture goroutine is
\* about to read the next frame of a Turn that is still running.
C14_Witness ==
    /\ Running /\ pc = "recv" /\ frame = turn
    /\ cap[turn] = "read" /\ sendErr[turn]
    /\ ~cancelled[turn] /\ endCause = "none"

\* ---------------------------------------------------------------------- C15
\* C15: an event with a result whose microphone mode is neither
\* CLOSE_MICROPHONE nor DIALOG_FOLLOW_ON, once it reaches the mode switch (no
\* error, no quit/exit transcript, no END_OF_UTTERANCE), ends the Turn without
\* ending the process: the capture goroutine is stopped and the user is
\* prompted again.
C15_UnknownModeReprompts ==
    (Running /\ pc = "micMode" /\ UnknownMode(ev))
       ~> (Running /\ pc = "prompt" /\ cap[frame] \in {"stopping", "done"})

\* ---------------------------------------------------------------------- C16
\* C16: a response with no error and a nil result is skipped: the loop goes
\* back to Recv and the step changes nothing else (no playback write, no token
\* update, no stop signal, no cancellation, no end of Turn or process),
\* whatever event type or audio payload the response carries.
C16_NilResultSkipped ==
    [][(Running /\ pc = "handle" /\ ~ev.err /\ ~ev.result
           /\ (pc' # pc \/ proc' # proc))
          => /\ pc' = "recv"
             /\ UNCHANGED <<proc, turn, frame, conn, canceler, cancelled,
                            conversationState, config, configSent, cap, stream,
                            nrecv, stopQuit, sigPos, played, writeFailed,
                            endCause, sentOnClosed, sendErr>>]_vars

\* Both responses of the "skip" stream, one carrying audio and one carrying
\* END_OF_UTTERANCE, neither with a result, have been received and skipped in
\* the first Turn, which is still in its receive loop.
C16_Witness ==
    /\ Running /\ turn = 1 /\ pc = "recv"
    /\ stream = "skip" /\ nrecv = 2
    /\ played = <<>> /\ conversationState = NilBytes
    /\ ~cancelled[1] /\ cap[1] \notin {"stopping", "done"}
    /\ endCause = "none"

\* ---------------------------------------------------------------------- C17
\* Two sends are in progress on the stop channel of Turn t: the one inside
\* stop(), called by the capture goroutine after a device failure, and the
\* direct one of the END_OF_UTTERANCE branch of the receive loop.
DoubleSend(t) == cap[t] = "stopBlocked" /\ frame = t /\ pc = "eouSend"

\* C17: the stop signal can be sent twice on the stop channel of one Turn, once
\* inside stop() and once directly by the END_OF_UTTERANCE branch (C17_Witness
\* is such a state).  What the code does with the two sends: both stay pending
\* for ever, since the only receiver of the channel is one of the two senders,
\* and the process goes on running.
C17_DoubleSendStaysPending ==
    [][\A t \in Turns : DoubleSend(t) => (DoubleSend(t)' /\ proc' = proc)]_vars

\* A Turn on which both sends have been issued.
C17_Witness == Running /\ DoubleSend(turn) /\ endCause = "eou"

\* ---------------------------------------------------------------------- C18
\* C18: the stop handshake is free of deadlock: every send on a Turn's stop
\* channel, by the main goroutine (stop() or the END_OF_UTTERANCE branch) or
\* by the capture goroutine inside stop(), is eventually received by that
\* Turn's capture goroutine (or the process ends first), device reads and
\* session sends returning.
C18_StopSendReceived ==
    \A t \in Turns :
       (Running /\ (MainSendsStop(t) \/ cap[t] = "stopBlocked"))
          ~> (cap[t] \in {"stopping", "done"} \/ ~Running)

\* ---------------------------------------------------------------------- C19
\* The step is an audio Send of the capture goroutine of Turn t.
AudioSend(t) == cap[t] = "send" /\ cap'[t] # cap[t]

\* C19: once the capture goroutine of a Turn has received the stop signal (the
\* send of the main goroutine has completed), it sends no audio any more: it
\* stays out of its loop; and canceler() in stop() runs only for a Turn whose
\* capture goroutine has received the signal, so no audio Send follows the
\* cancellation.
C19_NoAudioAfterStop ==
    [][\A t \in Turns :
          /\ cap[t] \in {"stopping", "done"}
                => (cap'[t] \in {"stopping", "done"} /\ ~AudioSend(t))
          /\ cancelled[t] => ~AudioSend(t)
          /\ cancelled'[t] => cap'[t] \in {"stopping", "done"}]_vars

\* The capture goroutine sent audio, took the stop signal of stop(false) at
\* its select and has returned; stop(false) has cancelled the context.
C19_Witness ==
    /\ Running /\ pc = "prompt" /\ frame = turn
    /\ cancelled[turn] /\ cap[turn] = "done"
    /\ endCause = "close"

\* ---------------------------------------------------------------------- C20
\* C20: in every Turn the config Send has completed before the capture
\* goroutine, the only sender of audio, is started: while the main goroutine
\* is dialling, opening the stream or sending the config, the Turn has no
\* capture goroutine; a Turn that has one has its config sent; and a Turn whose
\* setup failed never gets one.
C20_ConfigBeforeCapture ==
    /\ cap[turn] # "none" => configSent
    /\ pc \in {"dial", "converse", "sendConfig"} => cap[frame] = "none"
    /\ endCause = "setupFail" => cap[turn] = "none"

\* The second Turn's config was sent with the stored token, after which its
\* capture goroutine was started and has sent audio.
C20_Witness ==
    /\ Running /\ turn = 2 /\ frame = 2 /\ pc = "recv"
    /\ configSent /\ config \in {"T1", "T2"}
    /\ cap[2] = "select"

====
